---- MODULE Spec2Model ----
(***************************************************************************)
(* Model of zcatr's content renderer, display_file_content (src/main.rs).  *)
(* One behaviour is one invocation of display_file_content on one byte     *)
(* source: the sniff read, the classification by infer::get, and the       *)
(* streaming loop of the printing_handler closure.                         *)
(*                                                                         *)
(* Bytes are the integers 0..255.  The buffer keeps the source's 0-based   *)
(* indices; streams and emitted fragments are 1-based sequences.           *)
(***************************************************************************)
EXTENDS Integers, Sequences, FiniteSets, TLC

(***************************************************************************)
(* Sizes.  The program uses MAGIC_BYTES_SIZE = 512 and BUFFER_SIZE = 8192  *)
(* (main.rs lines 19-20).  The model scales both down so that streams of a *)
(* few bytes reach the sniff-window limit and the buffer capacity.  The    *)
(* scaled buffer stays larger than the longest UTF-8 character (4 bytes),  *)
(* as the real one does.                                                   *)
(***************************************************************************)
MAGIC_BYTES_SIZE == 2

BUFFER_SIZE == 5

\* Longest stream drawn from the full byte alphabet.
MaxLen == 4

\* LINE_ENDING of the non-Windows build (main.rs line 17): "\n".
LINE_ENDING == <<10>>

\* The byte alphabet of the short streams: 'a', a 2-byte lead (C3), a 3-byte
\* lead (E2), a 4-byte lead (F0) and a continuation byte (9F) that is a legal
\* second byte after each of these leads.  Malformed text arises from stray
\* continuation bytes and leads without their continuation bytes.
Bytes == {97, 195, 226, 240, 159}

\* U+FFFD REPLACEMENT CHARACTER, which String::from_utf8_lossy substitutes.
REPLACEMENT == <<239, 191, 189>>

Min(a, b) == IF a <= b THEN a ELSE b

\* buf[lo..hi) as a sequence (a Rust slice &buffer[lo..hi]).
Slice(buf, lo, hi) == [i \in 1..(hi - lo) |-> buf[lo + i - 1]]

\* s[from..] of a sequence, 1-based `from`.
Drop(s, k) == SubSeq(s, k + 1, Len(s))

(***************************************************************************)
(* std::str::from_utf8: the well-formed byte sequences of Unicode table    *)
(* 3-7.  CharLen(s) is the length of the well-formed character at the head *)
(* of s, or 0 when s does not start with one.                              *)
(***************************************************************************)
IsCont(b) == b >= 128 /\ b <= 191

SecondOk(lead, b) ==
    CASE lead = 224 -> b >= 160 /\ b <= 191
      [] lead = 237 -> b >= 128 /\ b <= 159
      [] lead = 240 -> b >= 144 /\ b <= 191
      [] lead = 244 -> b >= 128 /\ b <= 143
      [] OTHER -> IsCont(b)

\* Number of bytes the lead byte announces (0: not a legal lead byte).
Width(b) ==
    IF b < 128 THEN 1
    ELSE IF b >= 194 /\ b <= 223 THEN 2
    ELSE IF b >= 224 /\ b <= 239 THEN 3
    ELSE IF b >= 240 /\ b <= 244 THEN 4
    ELSE 0

\* Length of the longest prefix of s that is a prefix of a well-formed
\* character (what Utf8Chunks consumes before it reports an invalid run).
GoodPrefix(s) ==
    LET w == Width(s[1]) IN
    IF w = 0 THEN 0
    ELSE IF w = 1 THEN 1
    ELSE IF Len(s) < 2 \/ ~SecondOk(s[1], s[2]) THEN 1
    ELSE IF w = 2 THEN 2
    ELSE IF Len(s) < 3 \/ ~IsCont(s[3]) THEN 2
    ELSE IF w = 3 THEN 3
    ELSE IF Len(s) < 4 \/ ~IsCont(s[4]) THEN 3
    ELSE 4

CharLen(s) ==
    IF s = <<>> THEN 0
    ELSE IF Width(s[1]) > 0 /\ GoodPrefix(s) = Width(s[1]) THEN Width(s[1])
    ELSE 0

\* (In the recursive operators the rest of the sequence is bound by a
\* quantifier or a set constructor, so that it is evaluated once.)
RECURSIVE IsValidUtf8(_)
IsValidUtf8(s) ==
    IF s = <<>> THEN TRUE
    ELSE IF CharLen(s) = 0 THEN FALSE
    ELSE \A rest \in {Drop(s, CharLen(s))} : IsValidUtf8(rest)

(***************************************************************************)
(* String::from_utf8_lossy: well-formed characters are kept, every maximal *)
(* invalid run (at least one byte) becomes one U+FFFD.                     *)
(***************************************************************************)
RECURSIVE FromUtf8Lossy(_)
FromUtf8Lossy(s) ==
    IF s = <<>> THEN <<>>
    ELSE LET good == CharLen(s)
             bad  == IF GoodPrefix(s) = 0 THEN 1 ELSE GoodPrefix(s)
             used == IF good > 0 THEN good ELSE bad
             head == IF good > 0 THEN SubSeq(s, 1, good) ELSE REPLACEMENT
         IN  CHOOSE r \in {head \o FromUtf8Lossy(rest) : rest \in {Drop(s, used)}} :
                 TRUE

(***************************************************************************)
(* str::split(LINE_ENDING) and join(LINE_ENDING) for the one-byte line     *)
(* ending: the pieces between the separators, at least one piece.          *)
(***************************************************************************)
SplitLines(s) ==
    LET seps == {i \in 1..Len(s) : <<s[i]>> = LINE_ENDING}
        ends == seps \cup {0, Len(s) + 1}
        \* the j-th smallest element of ends, j = 1..Cardinality(ends)
        At(j) == CHOOSE x \in ends : Cardinality({y \in ends : y < x}) = j - 1
    IN  [j \in 1..(Cardinality(seps) + 1) |-> SubSeq(s, At(j) + 1, At(j + 1) - 1)]

RECURSIVE JoinLines(_)
JoinLines(ls) ==
    IF ls = <<>> THEN <<>>
    ELSE IF Len(ls) = 1 THEN ls[1]
    ELSE CHOOSE r \in {ls[1] \o LINE_ENDING \o JoinLines(rest) : rest \in {Tail(ls)}} :
             TRUE

\* Lines 218-219: the lossy text, split into lines, the lines that are valid
\* UTF-8 kept, joined again.
LossyFiltered(range) ==
    JoinLines(SelectSeq(SplitLines(FromUtf8Lossy(range)), IsValidUtf8))

\* Mutant of Rendered: a range that is not valid UTF-8 is not written.
RenderedValidOnly(range) == IF IsValidUtf8(range) THEN range ELSE <<>>

\* Mutant of Rendered: the range is written without validation.
RenderedRaw(range) == range

\* Lines 215-221: what print! writes for an emit range.
Rendered(range) ==
    IF IsValidUtf8(range) THEN range ELSE LossyFiltered(range)


(***************************************************************************)
(* The streams the model renders: every byte string of at most MaxLen      *)
(* bytes over Bytes, and a few longer ones: plain ASCII longer than the    *)
(* buffer, text mixing 1-, 2-, 3- and 4-byte characters, lines with and    *)
(* without malformed bytes, and a lead byte followed by a buffer-full of   *)
(* continuation bytes.                                                     *)
(***************************************************************************)
Repeat(b, k) == [i \in 1..k |-> b]

ShortStreams == UNION {[1..n -> Bytes] : n \in 0..MaxLen}

LongStreams ==
    { Repeat(97, BUFFER_SIZE + 2),
      <<97, 226, 159, 159, 97, 240, 159, 159, 159, 97>>,
      <<240, 159, 159, 159, 226, 159, 159, 195, 159>>,
      <<97, 10, 226, 159, 159, 10, 97>>,
      <<97, 10, 255, 97, 10, 97>>,
      <<159, 10, 97, 226, 10, 97>>,
      <<226>> \o Repeat(159, BUFFER_SIZE - 1) \o <<97>>,
      <<97, 226>> \o Repeat(159, BUFFER_SIZE) \o <<97>> }

Streams == ShortStreams \cup LongStreams

(***************************************************************************)
(* infer::get (line 240).  The label of "no match" is NoType.  The crate's *)
(* signature catalogue is not part of this program: its answer for a       *)
(* non-empty window is any label or none; an empty window matches nothing. *)
(***************************************************************************)
NoType == "None"

TextLabels ==
    {"text/plain", "text/markdown", "text/csv", "application/json",
     "application/xml", "text/xml"}

OtherLabels == {"image/png", "application/pdf", "text/html"}

InferGet(window) ==
    IF window = <<>> THEN {NoType} ELSE {NoType} \cup TextLabels \cup OtherLabels

\* Mutant of IsPreviewable: the None arm does not render.
IsPreviewableLabelled(m) == m \in TextLabels

\* Mutant of IsPreviewable: "text/xml" is missing from the text arm.
IsPreviewableNoXml(m) == m = NoType \/ m \in (TextLabels \ {"text/xml"})

\* Mutant of IsPreviewable: the catch-all arm renders too.
IsPreviewableAlways(m) == TRUE

\* The arm of the match of lines 240-253 that a sniff result selects.
MatchArm(m) ==
    IF m = NoType THEN "None"
    ELSE IF m \in TextLabels THEN "Some text label"
    ELSE "Some other label"

\* The match of lines 240-253: TRUE when printing_handler is called.
IsPreviewable(m) == m = NoType \/ m \in TextLabels

(***************************************************************************)
(* Read::read on a slice of `cap` bytes when the source still holds        *)
(* `avail` bytes: any count from 1 to min(cap, avail), and 0 only at end   *)
(* of stream or for an empty slice.                                        *)
(***************************************************************************)
ReadSizes(cap, avail) ==
    IF cap = 0 \/ avail = 0 THEN {0} ELSE 1..Min(cap, avail)

\* Mutant of Filled: the read writes at the front of the buffer, over the
\* carry tail.
FilledAtFront(buf, at, str, pos, n) ==
    [i \in DOMAIN buf |-> IF i < n THEN str[pos + i + 1] ELSE buf[i]]

\* The buffer after a read of n bytes at stream position pos into buf[at..].
Filled(buf, at, str, pos, n) ==
    [i \in DOMAIN buf |-> IF i >= at /\ i < at + n THEN str[pos + (i - at) + 1]
                          ELSE buf[i]]

(***************************************************************************)
(* The backward scan of lines 195-208.                                     *)
(***************************************************************************)
\* Line 199: a single-byte character or the lead byte of a 2-, 3- or 4-byte
\* sequence (b >> 7 == 0, b >> 5 == 6, b >> 4 == 14, b >> 3 == 30).
IsStartByte(b) ==
    \/ b \div 128 = 0
    \/ b \div 32 = 6
    \/ b \div 16 = 14
    \/ b \div 8 = 30

\* Mutant of Scan: no test of right_ptr == 0, the scan settles on index 0.
RECURSIVE ScanNoGuard(_, _)
ScanNoGuard(buf, p) ==
    IF IsStartByte(buf[p]) \/ p = 0 THEN [found |-> TRUE, right_ptr |-> p]
    ELSE CHOOSE r \in {ScanNoGuard(buf, q) : q \in {p - 1}} : TRUE

\* The scan from right_ptr = p down to 0: the position where it breaks, or
\* found = FALSE when it reaches index 0 without a start byte (line 204).
RECURSIVE Scan(_, _)
Scan(buf, p) ==
    IF IsStartByte(buf[p]) THEN [found |-> TRUE, right_ptr |-> p]
    ELSE IF p = 0 THEN [found |-> FALSE, right_ptr |-> 0]
    ELSE CHOOSE r \in {Scan(buf, q) : q \in {p - 1}} : TRUE

\* Mutant of EmitEnd: the range always includes the inspected byte.
EmitEndInclusive(inspected_byte, right_ptr) == right_ptr + 1

\* Lines 210-213: the exclusive end of the emit range ..end.
EmitEnd(inspected_byte, right_ptr) ==
    IF inspected_byte \div 128 = 0 THEN right_ptr + 1 ELSE right_ptr

\* Mutant of CarryOffset: the offset stays 0, the next read overwrites the
\* carry tail.
CarryOffsetZero(inspected_byte, right_ptr, rb) == 0

\* Mutant of CarryOffset: the offset is one more than the tail's length.
CarryOffsetPlusOne(inspected_byte, right_ptr, rb) ==
    IF inspected_byte \div 128 # 0 THEN rb - right_ptr + 1 ELSE 0

\* Lines 223-228: the carry offset.
CarryOffset(inspected_byte, right_ptr, rb) ==
    IF inspected_byte \div 128 # 0 THEN rb - right_ptr ELSE 0

\* Mutant of CopyWithin: the tail is not copied to the front.
CopyWithinNone(buf, inspected_byte, right_ptr, rb) == buf

\* Line 226: buffer.copy_within(right_ptr..read_bytes, 0), done only when
\* the inspected byte is not a single-byte character.
CopyWithin(buf, inspected_byte, right_ptr, rb) ==
    IF inspected_byte \div 128 # 0
    THEN [i \in DOMAIN buf |-> IF i < rb - right_ptr THEN buf[right_ptr + i]
                               ELSE buf[i]]
    ELSE buf

\* Mutant of LoopBreaks: the test for an empty read never succeeds.
LoopBreaksNever(n) == n < 0

\* Line 232: the loop ends when the read returned no byte.
LoopBreaks(n) == n = 0


(***************************************************************************)
(* State of one invocation of display_file_content.                        *)
(***************************************************************************)
VARIABLES
    stream,        \* the bytes the source will deliver, in order
    srcPos,        \* number of bytes the source has delivered so far
    with_styling,  \* CONTEXT.with_styling
    buffer,        \* [0..BUFFER_SIZE-1 -> byte], zeroed at line 182
    read_bytes,    \* length of the filled region of buffer
    magic_bytes,   \* the sniff window, &buffer[..read_bytes] of line 184
    mime,          \* result of infer::get while the match of line 240 runs
    pc,            \* position / outcome of the invocation
    sink,          \* what was written to standard output, in order
    reads,         \* number of calls of reader.read
    eofSeen,       \* a read that asked for at least one byte returned 0
    readFailed,    \* a read returned Err
    cuts,          \* stream positions at which a read result ended
    discarded,     \* carry tail still in the buffer when the loop ended
    emitRange,     \* &buffer[range] of the latest iteration (line 215)
    arm            \* the arm the match of lines 240-253 took

renderVars ==
    <<stream, srcPos, with_styling, buffer, read_bytes, magic_bytes, mime,
      pc, sink, reads, eofSeen, readFailed, cuts, discarded, emitRange,
      arm>>

(***************************************************************************)
(* State of main (lines 488-583) over the files of one command line, and   *)
(* of one call of format_file_size.  They stay idle while one invocation   *)
(* of display_file_content is followed, and conversely.                    *)
(***************************************************************************)
VARIABLES
    nfiles,        \* number of paths in args.files
    list,          \* args.list
    fi,            \* 1-based index of the file the for loop is at
    cur,           \* the archive being walked: its kind and its entries
    ei,            \* 1-based index of the next entry of the walk
    bpc,           \* position of main
    log,           \* what main and its handlers did, in order
    bytes,         \* argument of format_file_size
    formatted      \* its result

(***************************************************************************)
(* Several calls of display_file_content in one process (the handler of a  *)
(* walker called entry after entry).                                       *)
(***************************************************************************)
VARIABLES
    calls,         \* number of calls of display_file_content begun
    earlier,       \* what the earlier calls wrote, in order
    leftover       \* the carry tail the previous call left in its buffer

sessionVars == <<calls, earlier, leftover>>

batchVars == <<nfiles, list, fi, cur, ei, bpc, log>>

sizeVars == <<bytes, formatted>>

vars == <<renderVars, batchVars, sizeVars, sessionVars>>

NoArchive ==
    [kind |-> "none", type |-> "", tar_name |-> FALSE, name |-> "none",
     file |-> 0, entries |-> <<>>]

NoResult == [unit |-> "none", decimals |-> 0, digits |-> 0]

BatchIdle ==
    /\ nfiles = 0
    /\ list = FALSE
    /\ fi = 0
    /\ cur = NoArchive
    /\ ei = 0
    /\ bpc = "Idle"
    /\ log = <<>>

SizeIdle ==
    /\ bytes = <<0, 0, 0, 0, 0>>
    /\ formatted = NoResult

Terminal == {"Finished", "Rejected", "Stopped", "Panicked", "Aborted"}

Header == [kind |-> "header", bytes |-> <<>>]

Footer == [kind |-> "footer", bytes |-> <<>>]

Notice == [kind |-> "notice", bytes |-> <<>>]

Text(b) == [kind |-> "text", bytes |-> b]

\* print!("{}", text): an empty text writes nothing.
Printed(out, b) == IF b = <<>> THEN out ELSE Append(out, Text(b))

\* Mutant of WithFooter: the footer does not depend on the styling flag.
WithFooterAlways(out) == Append(out, Footer)

\* Lines 255-257: the footer, written after the match when styling is on.
WithFooter(out) == IF with_styling THEN Append(out, Footer) ELSE out

\* Lines 176-180: the header.
WithHeader(out) == IF with_styling THEN Append(out, Header) ELSE out

Init ==
    /\ stream \in Streams
    /\ srcPos = 0
    /\ with_styling \in BOOLEAN
    /\ buffer = [i \in 0..(BUFFER_SIZE - 1) |-> 0]
    /\ read_bytes = 0
    /\ magic_bytes = <<>>
    /\ mime = NoType
    /\ pc = "Sniffing"
    /\ sink = <<>>
    /\ reads = 0
    /\ eofSeen = FALSE
    /\ readFailed = FALSE
    /\ cuts = {}
    /\ discarded = <<>>
    /\ emitRange = <<>>
    /\ arm = "not yet"
    /\ BatchIdle
    /\ SizeIdle
    /\ calls = 1
    /\ earlier = <<>>
    /\ leftover = <<>>

(***************************************************************************)
(* Lines 176-184 and the evaluation of infer::get of line 240: the header, *)
(* the sniff read of at most MAGIC_BYTES_SIZE bytes, the classification.   *)
(***************************************************************************)
SniffRead ==
    /\ pc = "Sniffing"
    /\ \E n \in ReadSizes(MAGIC_BYTES_SIZE, Len(stream) - srcPos) :
       \E buf \in {Filled(buffer, 0, stream, srcPos, n)} :
         /\ buffer' = buf
         /\ read_bytes' = n
         /\ magic_bytes' = Slice(buf, 0, n)
         /\ srcPos' = srcPos + n
         /\ eofSeen' = (n = 0)
         /\ cuts' = cuts \cup {srcPos + n}
         /\ \E m \in InferGet(Slice(buf, 0, n)) : mime' = m
    /\ sink' = WithHeader(sink)
    /\ reads' = reads + 1
    /\ pc' = "Sniffed"
    /\ UNCHANGED <<stream, with_styling, readFailed, discarded>>
    /\ UNCHANGED <<emitRange, arm>>
    /\ UNCHANGED <<batchVars, sizeVars, sessionVars>>

\* Line 183: the sniff read fails and unwrap() panics.
SniffReadFails ==
    /\ pc = "Sniffing"
    /\ sink' = WithHeader(sink)
    /\ reads' = reads + 1
    /\ readFailed' = TRUE
    /\ pc' = "Panicked"
    /\ UNCHANGED <<stream, srcPos, with_styling, buffer, read_bytes,
                   magic_bytes, mime, eofSeen, cuts, discarded>>
    /\ UNCHANGED <<emitRange, arm>>
    /\ UNCHANGED <<batchVars, sizeVars, sessionVars>>

\* Lines 246-248 and 255-257: a recognised type outside the text labels.
Reject ==
    /\ pc = "Sniffed"
    /\ ~IsPreviewable(mime)
    /\ arm' = MatchArm(mime)
    /\ sink' = WithFooter(Append(sink, Notice))
    /\ pc' = "Rejected"
    /\ UNCHANGED <<stream, srcPos, with_styling, buffer, read_bytes,
                   magic_bytes, mime, reads, eofSeen, readFailed, cuts,
                   discarded>>
    /\ UNCHANGED emitRange
    /\ UNCHANGED <<batchVars, sizeVars, sessionVars>>

\* Lines 244/251 and 187-188: printing_handler is called; the cursor over
\* magic_bytes is read into the closure's buffer.  The scrutinee of the match
\* is not used again.
BeginStreaming ==
    /\ pc = "Sniffed"
    /\ IsPreviewable(mime)
    /\ arm' = MatchArm(mime)
    /\ mime' = NoType
    /\ LET n == Min(Len(magic_bytes), BUFFER_SIZE) IN
         /\ buffer' = Filled(buffer, 0, magic_bytes, 0, n)
         /\ read_bytes' = n
    /\ pc' = "Streaming"
    /\ UNCHANGED <<stream, srcPos, with_styling, magic_bytes, sink, reads,
                   eofSeen, readFailed, cuts, discarded>>
    /\ UNCHANGED emitRange
    /\ UNCHANGED <<batchVars, sizeVars, sessionVars>>

(***************************************************************************)
(* One iteration of the loop of lines 193-237.                             *)
(***************************************************************************)
\* Line 195 with read_bytes = 0: read_bytes - 1 overflows.  A debug build
\* panics there; a release build wraps to usize::MAX and panics on the
\* bounds check of buffer[right_ptr] at line 198.
ScanUnderflow ==
    /\ pc = "Streaming"
    /\ read_bytes = 0
    /\ pc' = "Panicked"
    /\ UNCHANGED <<stream, srcPos, with_styling, buffer, read_bytes,
                   magic_bytes, mime, sink, reads, eofSeen,
                   readFailed, cuts, discarded>>
    /\ UNCHANGED <<emitRange, arm>>
    /\ UNCHANGED <<batchVars, sizeVars, sessionVars>>

\* Lines 203-205: the scan reached index 0 without a start byte; the closure
\* returns, the footer follows.
ScanGuard ==
    /\ pc = "Streaming"
    /\ read_bytes > 0
    /\ ~Scan(buffer, read_bytes - 1).found
    /\ sink' = WithFooter(sink)
    /\ pc' = "Stopped"
    /\ UNCHANGED <<stream, srcPos, with_styling, buffer, read_bytes,
                   magic_bytes, mime, reads, eofSeen, readFailed,
                   cuts, discarded>>
    /\ UNCHANGED <<emitRange, arm>>
    /\ UNCHANGED <<batchVars, sizeVars, sessionVars>>

\* Lines 210-228 for a scan that broke at right_ptr: the text written and the
\* buffer and offset after the carry.
Emitted(buf, rb) ==
    CHOOSE e \in
        { [range  |-> range,
           text   |-> Rendered(range),
           buffer |-> CopyWithin(buf, buf[right_ptr], right_ptr, rb),
           offset |-> CarryOffset(buf[right_ptr], right_ptr, rb)] :
          right_ptr \in {Scan(buf, rb - 1).right_ptr},
          range \in {Slice(buf, 0, EmitEnd(buf[Scan(buf, rb - 1).right_ptr],
                                           Scan(buf, rb - 1).right_ptr))} } :
        TRUE

\* The read of line 230 returned n > 0 bytes: lines 232-236, loop again.
StreamContinue ==
    /\ pc = "Streaming"
    /\ read_bytes > 0
    /\ Scan(buffer, read_bytes - 1).found
    /\ \E e \in {Emitted(buffer, read_bytes)} :
       \E n \in ReadSizes(BUFFER_SIZE - e.offset, Len(stream) - srcPos) :
         /\ ~LoopBreaks(n)
         /\ sink' = Printed(sink, e.text)
         /\ buffer' = Filled(e.buffer, e.offset, stream, srcPos, n)
         /\ read_bytes' = n + e.offset
         /\ srcPos' = srcPos + n
         /\ cuts' = cuts \cup {srcPos + n}
         /\ emitRange' = e.range
    /\ reads' = reads + 1
    /\ UNCHANGED <<stream, with_styling, magic_bytes, mime, pc,
                   eofSeen, readFailed, discarded>>
    /\ UNCHANGED arm
    /\ UNCHANGED <<batchVars, sizeVars, sessionVars>>

\* The read of line 230 returned 0: break at line 233, then the footer.
StreamEnd ==
    /\ pc = "Streaming"
    /\ read_bytes > 0
    /\ Scan(buffer, read_bytes - 1).found
    /\ \E e \in {Emitted(buffer, read_bytes)} :
       \E n \in ReadSizes(BUFFER_SIZE - e.offset, Len(stream) - srcPos) :
         /\ LoopBreaks(n)
         /\ sink' = WithFooter(Printed(sink, e.text))
         /\ buffer' = Filled(e.buffer, e.offset, stream, srcPos, n)
         /\ read_bytes' = n
         /\ srcPos' = srcPos + n
         /\ eofSeen' = (BUFFER_SIZE - e.offset > 0 /\ n = 0)
         /\ discarded' = Slice(e.buffer, 0, e.offset)
         /\ emitRange' = e.range
    /\ reads' = reads + 1
    /\ pc' = "Finished"
    /\ UNCHANGED <<stream, with_styling, magic_bytes, mime,
                   readFailed, cuts>>
    /\ UNCHANGED arm
    /\ UNCHANGED <<batchVars, sizeVars, sessionVars>>

\* The read of line 230 returned Err: unwrap_or(0) makes it 0, break.
StreamReadFails ==
    /\ pc = "Streaming"
    /\ read_bytes > 0
    /\ Scan(buffer, read_bytes - 1).found
    /\ \E e \in {Emitted(buffer, read_bytes)} :
         /\ sink' = WithFooter(Printed(sink, e.text))
         /\ buffer' = e.buffer
         /\ discarded' = Slice(e.buffer, 0, e.offset)
         /\ emitRange' = e.range
    /\ read_bytes' = 0
    /\ reads' = reads + 1
    /\ readFailed' = TRUE
    /\ pc' = "Finished"
    /\ UNCHANGED <<stream, srcPos, with_styling, magic_bytes, mime,
                   eofSeen, cuts>>
    /\ UNCHANGED arm
    /\ UNCHANGED <<batchVars, sizeVars, sessionVars>>

Next ==
    \/ SniffRead
    \/ SniffReadFails
    \/ Reject
    \/ BeginStreaming
    \/ ScanUnderflow
    \/ ScanGuard
    \/ StreamContinue
    \/ StreamEnd
    \/ StreamReadFails

Spec == Init /\ [][Next]_vars

\* Longest stream over Bytes in the behaviours checked for termination.
MaxLiveLen == 3

LiveStreams ==
    UNION {[1..n -> Bytes] : n \in 0..MaxLiveLen} \cup LongStreams

InitLive == Init /\ stream \in LiveStreams /\ with_styling

\* Every step the program can take is eventually taken: it runs on one thread
\* and every read of a finite source returns.
FairSpec == InitLive /\ [][Next]_vars /\ WF_vars(Next)

TypeOK ==
    /\ pc \in {"Sniffing", "Sniffed", "Streaming"} \cup Terminal
    /\ srcPos \in 0..Len(stream)
    /\ read_bytes \in 0..BUFFER_SIZE


(***************************************************************************)
(* Observations on the output and the reads, used by the properties.       *)
(***************************************************************************)
IsText(item) == item.kind = "text"

IsNotice(item) == item.kind = "notice"

\* The text fragments written so far, in order.
Fragments == SelectSeq(sink, IsText)

RECURSIVE FragmentBytes(_)
FragmentBytes(fs) ==
    IF fs = <<>> THEN <<>>
    ELSE CHOOSE r \in {Head(fs).bytes \o FragmentBytes(rest) : rest \in {Tail(fs)}} :
             TRUE

\* The concatenation of all text fragments written so far.
Output == FragmentBytes(Fragments)

\* Stream position of the last byte of fragment j when the output is a
\* prefix of the stream.
FragmentEnd(j) == Len(FragmentBytes(SubSeq(Fragments, 1, j)))

\* The invocation returned through the streaming loop with every read
\* successful.
FinishedCleanly == pc = "Finished" /\ ~readFailed

\* A read result ended strictly inside a multi-byte sequence of the stream.
CutInsideCharacter ==
    \E c \in cuts : c > 0 /\ c < Len(stream) /\ IsCont(stream[c + 1])

\* What one iteration writes when the whole stream s is the filled region.
WholeAtOnce(s) ==
    LET buf == [i \in 0..(Len(s) - 1) |-> s[i + 1]]
        sc  == Scan(buf, Len(s) - 1)
    IN  IF s = <<>> \/ ~sc.found THEN <<>>
        ELSE Rendered(Slice(buf, 0, EmitEnd(buf[sc.right_ptr], sc.right_ptr)))

(***************************************************************************)
(* C1  Chunk independence: for a valid UTF-8 stream that is rendered, the  *)
(* concatenation of the fragments is the same for every way the source     *)
(* splits the stream into read results: it is what a single read of the    *)
(* whole stream gives.                                                     *)
(***************************************************************************)
ChunkIndependence ==
    (FinishedCleanly /\ IsValidUtf8(stream)) => Output = WholeAtOnce(stream)

\* A valid stream rendered to its end in several reads, one of which ended
\* inside a multi-byte character, with text written.
ChunkIndependenceWitness ==
    /\ FinishedCleanly
    /\ IsValidUtf8(stream)
    /\ CutInsideCharacter
    /\ reads >= 4
    /\ Len(Fragments) >= 2

(***************************************************************************)
(* C2  Content fidelity: for a valid UTF-8 stream that is rendered, the    *)
(* concatenation of the fragments equals the whole stream when the         *)
(* invocation finishes.                                                    *)
(***************************************************************************)
ContentFidelity ==
    (FinishedCleanly /\ IsValidUtf8(stream)) => Output = stream

(***************************************************************************)
(* C3  No partial character: every fragment written is valid UTF-8 and     *)
(* does not end with a lead byte whose continuation bytes are missing,     *)
(* whatever the bytes, the chunking and the outcome.                       *)
(***************************************************************************)
\* Bytes a lead byte announces, by its top bits.
Announced(b) ==
    IF b \div 32 = 6 THEN 2
    ELSE IF b \div 16 = 14 THEN 3
    ELSE IF b \div 8 = 30 THEN 4
    ELSE 1

EndsInsideCharacter(f) ==
    \E k \in 1..3 :
        /\ Len(f) >= k
        /\ Announced(f[Len(f) - k + 1]) > k
        /\ \A j \in (Len(f) - k + 2)..Len(f) : IsCont(f[j])

NoPartialCharacter ==
    \A i \in 1..Len(sink) :
        IsText(sink[i]) =>
            IsValidUtf8(sink[i].bytes) /\ ~EndsInsideCharacter(sink[i].bytes)

\* A malformed range went through the lossy path (U+FFFD was written) in a
\* run whose reads split a multi-byte sequence.
NoPartialCharacterWitness ==
    /\ pc \in {"Finished", "Stopped"}
    /\ CutInsideCharacter
    /\ \E i \in 1..Len(sink) :
         /\ IsText(sink[i])
         /\ \E j \in 1..Len(sink[i].bytes) : sink[i].bytes[j] = 239

(***************************************************************************)
(* C4  Straddling character: in a valid stream that is rendered to its     *)
(* end, every 3-byte character inside which a read result ended is written *)
(* whole inside one fragment.                                              *)
(***************************************************************************)
StraddledCharacterIntact ==
    (FinishedCleanly /\ IsValidUtf8(stream)) =>
        \A i \in 1..(Len(stream) - 2) :
            (Width(stream[i]) = 3 /\ (i \in cuts \/ i + 1 \in cuts)) =>
                \E j \in 1..Len(Fragments) :
                    /\ FragmentEnd(j - 1) < i
                    /\ i + 2 <= FragmentEnd(j)

(***************************************************************************)
(* C5  Gating: a window classified as a recognised type outside the text   *)
(* labels gets exactly the notice, no content, and no read after the sniff *)
(* read.                                                                   *)
(***************************************************************************)
NoticeOnly(out) ==
    /\ Cardinality({i \in 1..Len(out) : IsNotice(out[i])}) = 1
    /\ \A i \in 1..Len(out) : ~IsText(out[i])

Gating ==
    /\ [][(pc = "Sniffed" /\ mime \in OtherLabels) =>
            (pc' = "Rejected" /\ NoticeOnly(sink') /\ reads' = 1
                /\ srcPos' = srcPos)]_vars
    /\ [](pc = "Rejected" =>
            (NoticeOnly(sink) /\ reads = 1 /\ srcPos = Len(magic_bytes)))

\* A rejected stream of which bytes remain unread in the source.
GatingWitness ==
    /\ pc = "Rejected"
    /\ mime = "image/png"
    /\ magic_bytes # <<>>
    /\ srcPos < Len(stream)

(***************************************************************************)
(* C6  Exhaustion: for a zero-length stream whose first read returns 0,    *)
(* the invocation ends in Finished with no fragment and no notice.         *)
(***************************************************************************)
ZeroLengthFinishes ==
    (stream = <<>> /\ ~readFailed /\ pc \in Terminal) =>
        (pc = "Finished" /\ \A i \in 1..Len(sink) :
                               ~IsText(sink[i]) /\ ~IsNotice(sink[i]))

(***************************************************************************)
(* C7  Completion: a rendered stream's invocation returns only after the   *)
(* source reported end of stream or a read failed, never while unread      *)
(* bytes remain in the source.                                             *)
(***************************************************************************)
NoSilentTruncation ==
    (pc \in {"Finished", "Stopped"} /\ ~readFailed) =>
        (eofSeen /\ srcPos = Len(stream))

(***************************************************************************)
(* C8  Read failure: after a failed read the invocation ends in the        *)
(* Aborted state, never in Finished.                                       *)
(***************************************************************************)
ReadFailureAborts ==
    (readFailed /\ pc \in Terminal) => pc = "Aborted"

(***************************************************************************)
(* C9  Discard at end of stream: a carry tail pending when the source      *)
(* returns 0 is never a complete character.                                *)
(***************************************************************************)
DiscardOnlyTruncated ==
    (pc = "Finished" /\ eofSeen /\ discarded # <<>>) =>
        CharLen(discarded) # Len(discarded)

(***************************************************************************)
(* C10 Forward progress: the invocation terminates, and every iteration    *)
(* of the streaming loop that loops again has taken at least one new byte  *)
(* from the source.                                                        *)
(***************************************************************************)
ForwardProgress ==
    /\ <>(pc \in Terminal)
    /\ [][(pc = "Streaming" /\ pc' = "Streaming" /\ reads' > reads) =>
            srcPos' > srcPos]_vars

\* A run that ended after several loop iterations, one of them entered with
\* a read boundary inside a multi-byte sequence.
ForwardProgressWitness ==
    /\ pc = "Finished"
    /\ eofSeen
    /\ CutInsideCharacter
    /\ reads >= 4


(***************************************************************************)
(* C11 Default-open policy: when infer::get returns None the stream goes   *)
(* to the streaming loop, and no notice is ever written for it.            *)
(***************************************************************************)
HasNotice(out) == \E i \in 1..Len(out) : IsNotice(out[i])

DefaultOpen ==
    /\ [][(pc = "Sniffed" /\ mime = NoType) =>
            (pc' = "Streaming" /\ sink' = sink)]_vars
    /\ [](arm = "None" => (pc # "Rejected" /\ ~HasNotice(sink)))

\* An unclassified, non-empty stream rendered to its end with text written.
DefaultOpenWitness ==
    /\ arm = "None"
    /\ pc = "Finished"
    /\ magic_bytes # <<>>
    /\ Output # <<>>

(***************************************************************************)
(* C12 Category mapping: the streaming loop runs exactly when the sniff    *)
(* result is absent or one of the six text labels; every other label is    *)
(* rejected with the notice; one invocation never does both.               *)
(***************************************************************************)
SixLabels ==
    {"text/plain", "text/markdown", "text/csv", "application/json",
     "application/xml", "text/xml"}

CategoryMapping ==
    /\ [][pc = "Sniffed" =>
            IF mime = NoType \/ mime \in SixLabels
            THEN pc' = "Streaming" /\ ~HasNotice(sink')
            ELSE pc' = "Rejected" /\ NoticeOnly(sink')]_vars
    /\ [](~(HasNotice(sink) /\ Fragments # <<>>))
    /\ [](arm = "Some other label" => pc = "Rejected")

\* A stream with a text label rendered to its end with text written.
CategoryMappingWitness ==
    /\ arm = "Some text label"
    /\ pc = "Finished"
    /\ Output # <<>>

(***************************************************************************)
(* C13 Progress guard: when the filled region holds no single-byte         *)
(* character and no lead byte, rendering stops at once: nothing of the     *)
(* region is written, no read is issued, and nothing happens afterwards.   *)
(***************************************************************************)
\* 0xxxxxxx, 110xxxxx, 1110xxxx or 11110xxx.
IsStartPattern(b) == b < 128 \/ (b >= 192 /\ b < 248)

NoStartIn(buf, rb) == \A i \in 0..(rb - 1) : ~IsStartPattern(buf[i])

GuardStops ==
    /\ [][(pc = "Streaming" /\ read_bytes > 0 /\ NoStartIn(buffer, read_bytes)) =>
            (/\ pc' = "Stopped"
             /\ SelectSeq(sink', IsText) = SelectSeq(sink, IsText)
             /\ reads' = reads
             /\ srcPos' = srcPos)]_vars
    /\ [][pc # "Stopped"]_vars

\* The guard fired on a region of several bytes while the source still held
\* bytes.
GuardStopsWitness ==
    /\ pc = "Stopped"
    /\ read_bytes >= 2
    /\ srcPos < Len(stream)

(***************************************************************************)
(* C18 Styling toggle: without styling no header and no footer is written; *)
(* with styling the header comes first, and the footer is the last thing   *)
(* written whenever the rendering finished, was rejected or was stopped.   *)
(***************************************************************************)
CountOf(out, item) == Cardinality({i \in 1..Len(out) : out[i] = item})

StylingToggle ==
    /\ ~with_styling => (CountOf(sink, Header) = 0 /\ CountOf(sink, Footer) = 0)
    /\ with_styling =>
        /\ pc # "Sniffing" => (CountOf(sink, Header) = 1 /\ sink[1] = Header)
        /\ pc \in {"Finished", "Rejected", "Stopped"} =>
               (CountOf(sink, Footer) = 1 /\ sink[Len(sink)] = Footer)
        /\ pc \notin {"Finished", "Rejected", "Stopped"} =>
               CountOf(sink, Footer) = 0

\* A styled rendering that wrote several fragments between header and footer.
StylingToggleWitness ==
    /\ with_styling
    /\ pc = "Finished"
    /\ Len(Fragments) >= 2
    /\ sink[1] = Header
    /\ sink[Len(sink)] = Footer

(***************************************************************************)
(* C20 Emit range: with p the greatest index of the filled region that     *)
(* holds a single-byte character or a lead byte, the iteration emits bytes *)
(* [0, p] when the byte at p is a single-byte character and [0, p) when it *)
(* is a lead byte.                                                         *)
(***************************************************************************)
LastStart(buf, rb) ==
    CHOOSE p \in 0..(rb - 1) :
        /\ IsStartPattern(buf[p])
        /\ \A q \in (p + 1)..(rb - 1) : ~IsStartPattern(buf[q])

EmitRangeRule ==
    [][(pc = "Streaming" /\ read_bytes > 0 /\ ~NoStartIn(buffer, read_bytes)) =>
         \E p \in {LastStart(buffer, read_bytes)} :
            emitRange' = IF buffer[p] < 128 THEN Slice(buffer, 0, p + 1)
                         ELSE Slice(buffer, 0, p)]_vars

\* An iteration emitted text ending in a multi-byte character and carried
\* the lead byte that followed it.
EmitRangeRuleWitness ==
    /\ pc = "Streaming"
    /\ emitRange # <<>>
    /\ emitRange[Len(emitRange)] >= 128
    /\ read_bytes > 0
    /\ buffer[0] >= 192

(***************************************************************************)
(* main (lines 488-583): the for loop over args.files.  What a file holds  *)
(* is the environment's choice, made when the loop reaches the file: the   *)
(* type infer_file_type reports, whether the name without its last         *)
(* extension ends with ".tar", and the entries of an archive.  An entry    *)
(* is a regular file with content ("file"), a regular file of length zero  *)
(* ("empty"), a directory ("dir"), a regular file whose name contains      *)
(* "._" ("meta"), or an entry the archive reader fails to yield ("bad").   *)
(***************************************************************************)
MaxFiles == 3

MaxEntries == 2

FileTypes ==
    {"application/zip", "application/x-tar", "application/gzip",
     "application/x-bzip2", "image/png", ""}

EntryKinds == {"file", "empty", "dir", "meta", "bad"}

EntryLists == UNION {[1..n -> EntryKinds] : n \in 0..MaxEntries}

ContentKinds == {"file", "empty", "bad"}

\* The walker the match arms of lines 514-537 and 548-571 lead to;
\* extract_and_display_info and extract_and_display_content walk a TAR
\* archive when the name without its last extension ends with ".tar".
Walker(file_type, tar_name) ==
    CASE file_type = "application/zip" -> "zip"
      [] file_type = "application/x-tar" -> "tar"
      [] file_type \in {"application/gzip", "application/x-bzip2"} /\ tar_name -> "tar"
      [] OTHER -> "none"

Event(file, entry, what) == [file |-> file, entry |-> entry, what |-> what]

\* println!("📂 {file_path:?}") in list mode (line 513).
Listed(out, file, isList) ==
    IF isList THEN Append(out, Event(file, 0, "listing")) ELSE out

\* The handler given to the walker: print_*_entry_info in list mode,
\* print_*_entry_content otherwise.
HandlerOutput(isList) == IF isList THEN "info" ELSE "content"

\* display_file_content panics at line 195 on a source of length zero.
HandlerPanics(isList, entry) == ~isList /\ entry = "empty"

\* Both walkers skip exactly the directory entries (lines 321-323, 406-408).
IsSkipped(entry) == entry = "dir"

\* How the arm of a file that is not walked ends: "ok" (returns Ok),
\* "err" (returns Err) or "panic".
SingleOutcomes(file_type, isList, content) ==
    IF file_type \in {"application/gzip", "application/x-bzip2"}
    THEN IF isList
         THEN IF content = "bad" THEN {"err"} ELSE {"ok"}
         ELSE CASE content = "bad" -> {"panic", "ok"}
                [] content = "empty" -> {"panic"}
                [] OTHER -> {"ok"}
    ELSE CASE content = "bad" -> {"err"}
           [] content = "empty" /\ ~isList -> {"panic"}
           [] OTHER -> {"ok"}

\* The name a file that is not walked is displayed under: the file name
\* without its last extension for a compressed file (lines 439-440, 446,
\* 473-474, 483), the path as given otherwise (lines 532, 566).
StreamName(file_type) ==
    IF file_type \in {"application/gzip", "application/x-bzip2"} THEN "stem" ELSE "path"

NextIndexStuck(i) == i

\* The step of the for loops of lines 317, 404 and 497.
NextIndex(i) == i + 1

AfterErrorContinue == "Loop"

\* std::process::exit(1) at lines 508, 545 and 578.
AfterError == "Exit1"

RenderIdle ==
    /\ stream = <<>>
    /\ srcPos = 0
    /\ with_styling = TRUE
    /\ buffer = [i \in 0..(BUFFER_SIZE - 1) |-> 0]
    /\ read_bytes = 0
    /\ magic_bytes = <<>>
    /\ mime = NoType
    /\ pc = "Idle"
    /\ sink = <<>>
    /\ reads = 0
    /\ eofSeen = FALSE
    /\ readFailed = FALSE
    /\ cuts = {}
    /\ discarded = <<>>
    /\ emitRange = <<>>
    /\ arm = "not yet"
    /\ calls = 0
    /\ earlier = <<>>
    /\ leftover = <<>>

BatchInit ==
    /\ RenderIdle
    /\ SizeIdle
    /\ nfiles \in 1..MaxFiles
    /\ list \in BOOLEAN
    /\ fi = 1
    /\ cur = NoArchive
    /\ ei = 0
    /\ bpc = "Loop"
    /\ log = <<>>

\* infer_file_type returns Err (lines 503-509).
InferFileTypeFails ==
    /\ bpc = "Loop"
    /\ fi <= nfiles
    /\ log' = Append(log, Event(fi, 0, "error"))
    /\ bpc' = AfterError
    /\ UNCHANGED <<nfiles, list, fi, cur, ei>>
    /\ UNCHANGED <<renderVars, sizeVars, sessionVars>>

\* The archive is opened and its walk begins (lines 351-353, 401-404,
\* 443-444, 477-478).
OpenArchive ==
    /\ bpc = "Loop"
    /\ fi <= nfiles
    /\ \E file_type \in FileTypes, tar_name \in BOOLEAN, entries \in EntryLists :
          /\ Walker(file_type, tar_name) # "none"
          /\ cur' = [kind |-> Walker(file_type, tar_name), type |-> file_type,
                      tar_name |-> tar_name, name |-> "entry", file |-> fi,
                      entries |-> entries]
    /\ log' = Listed(log, fi, list)
    /\ ei' = 1
    /\ bpc' = "Walk"
    /\ UNCHANGED <<nfiles, list, fi>>
    /\ UNCHANGED <<renderVars, sizeVars, sessionVars>>

\* ZipArchive::new or File::open returns Err (lines 351, 401-402), and
\* main reports it (lines 539-546, 572-579).
ArchiveOpenFails ==
    /\ bpc = "Loop"
    /\ fi <= nfiles
    /\ log' = Append(Listed(log, fi, list), Event(fi, 0, "error"))
    /\ bpc' = AfterError
    /\ UNCHANGED <<nfiles, list, fi, cur, ei>>
    /\ UNCHANGED <<renderVars, sizeVars, sessionVars>>

\* continue (lines 321-323, 406-408).
WalkSkip ==
    /\ bpc = "Walk"
    /\ ei <= Len(cur.entries)
    /\ cur.entries[ei] # "bad"
    /\ IsSkipped(cur.entries[ei])
    /\ ei' = NextIndex(ei)
    /\ UNCHANGED <<nfiles, list, fi, cur, bpc, log>>
    /\ UNCHANGED <<renderVars, sizeVars, sessionVars>>

\* entry? or by_index(i)? returns Err (lines 318, 405), and main reports it.
WalkEntryFails ==
    /\ bpc = "Walk"
    /\ ei <= Len(cur.entries)
    /\ cur.entries[ei] = "bad"
    /\ log' = Append(log, Event(fi, 0, "error"))
    /\ bpc' = AfterError
    /\ UNCHANGED <<nfiles, list, fi, cur, ei>>
    /\ UNCHANGED <<renderVars, sizeVars, sessionVars>>

\* handler(entry) (lines 325, 409).
WalkHandler ==
    /\ bpc = "Walk"
    /\ ei <= Len(cur.entries)
    /\ cur.entries[ei] # "bad"
    /\ ~IsSkipped(cur.entries[ei])
    /\ log' = Append(log, Event(fi, ei, HandlerOutput(list)))
    /\ IF HandlerPanics(list, cur.entries[ei])
       THEN bpc' = "Panicked" /\ ei' = ei
       ELSE bpc' = bpc /\ ei' = NextIndex(ei)
    /\ UNCHANGED <<nfiles, list, fi, cur>>
    /\ UNCHANGED <<renderVars, sizeVars, sessionVars>>

\* The walk returns Ok(()) (lines 327, 411); println!() (line 581).
WalkEnd ==
    /\ bpc = "Walk"
    /\ ei > Len(cur.entries)
    /\ log' = Append(log, Event(fi, 0, "newline"))
    /\ fi' = NextIndex(fi)
    /\ cur' = NoArchive
    /\ ei' = 0
    /\ bpc' = "Loop"
    /\ UNCHANGED <<nfiles, list>>
    /\ UNCHANGED <<renderVars, sizeVars, sessionVars>>

\* A file that is not walked: one display_file_info or one
\* display_file_content (lines 446, 480-483, 527-536, 561-570).
SingleFile ==
    /\ bpc = "Loop"
    /\ fi <= nfiles
    /\ \E file_type \in FileTypes, tar_name \in BOOLEAN, content \in ContentKinds :
          /\ Walker(file_type, tar_name) = "none"
          /\ cur' = [kind |-> "none", type |-> file_type, tar_name |-> tar_name,
                      name |-> StreamName(file_type), file |-> fi,
                      entries |-> <<>>]
          /\ \E outcome \in SingleOutcomes(file_type, list, content) :
                CASE outcome = "ok" ->
                        /\ log' = Listed(log, fi, list)
                                    \o <<Event(fi, 0, HandlerOutput(list)),
                                         Event(fi, 0, "newline")>>
                        /\ fi' = NextIndex(fi)
                        /\ bpc' = "Loop"
                  [] outcome = "err" ->
                        /\ log' = Append(Listed(log, fi, list), Event(fi, 0, "error"))
                        /\ fi' = fi
                        /\ bpc' = AfterError
                  [] OTHER ->
                        /\ log' = Append(log, Event(fi, 0, HandlerOutput(list)))
                        /\ fi' = fi
                        /\ bpc' = "Panicked"
    /\ UNCHANGED <<nfiles, list, ei>>
    /\ UNCHANGED <<renderVars, sizeVars, sessionVars>>

\* The for loop of line 497 is exhausted and main returns.
MainReturns ==
    /\ bpc = "Loop"
    /\ fi > nfiles
    /\ bpc' = "Exit0"
    /\ UNCHANGED <<nfiles, list, fi, cur, ei, log>>
    /\ UNCHANGED <<renderVars, sizeVars, sessionVars>>

BatchNext ==
    \/ InferFileTypeFails
    \/ OpenArchive
    \/ ArchiveOpenFails
    \/ WalkSkip
    \/ WalkEntryFails
    \/ WalkHandler
    \/ WalkEnd
    \/ SingleFile
    \/ MainReturns

BatchSpec == BatchInit /\ [][BatchNext]_vars

IsHandlerEvent(e) == e.what \in {"info", "content"}

\* How often the handler was given entry j of the archive being walked.
Handled(j) ==
    Cardinality({a \in 1..Len(log) :
                    log[a].file = fi /\ log[a].entry = j /\ IsHandlerEvent(log[a])})

BatchOver == bpc \in {"Exit0", "Exit1", "Panicked"}

\* C14: the files of one invocation are processed one after another in
\* argument order: in the record of what was done, the file index never
\* decreases, nothing is recorded for a file after the blank line that
\* closes it, every file before the current one has been closed before
\* the current one began, and the entries of one archive are handled in
\* strictly increasing archive order.
SequentialBatch ==
    /\ \A a \in 1..Len(log) : log[a].file \in 1..nfiles /\ log[a].file <= fi
    /\ \A a \in 1..Len(log), b \in 1..Len(log) :
          a < b =>
             /\ log[a].file <= log[b].file
             /\ (log[a].file = log[b].file) =>
                   /\ log[a].what # "newline"
                   /\ log[b].what # "listing"
                   /\ (log[a].entry > 0 /\ log[b].entry > 0) =>
                         log[a].entry < log[b].entry
    /\ \A k \in 1..nfiles :
          (k < fi) => \E a \in 1..Len(log) : log[a] = Event(k, 0, "newline")
    /\ \A a \in 1..Len(log) :
          (log[a].file < fi /\ a < Len(log) /\ log[a + 1].file > log[a].file)
             => log[a].what = "newline"

SequentialBatchWitness ==
    /\ fi = 2
    /\ bpc = "Walk"
    /\ ei = 2
    /\ Handled(1) = 1
    /\ \E a \in 1..Len(log) : log[a].file = 1 /\ log[a].entry = 2
    /\ \E a \in 1..Len(log) : log[a].file = 1 /\ log[a].entry = 1

IsPrefix(s, t) == Len(s) <= Len(t) /\ SubSeq(t, 1, Len(s)) = s

\* C15: the first failing file ends the run: an error (type inference
\* fails, or the archive handler returns an error) is reported naming the
\* file and the process exits with status 1; the report is the last
\* thing recorded, nothing is recorded for a later file, nothing follows
\* the exit, and what was recorded before is kept as it was.
StopOnFirstError ==
    /\ [](\A a \in 1..Len(log) :
             log[a].what = "error" => (a = Len(log) /\ bpc = "Exit1" /\ log[a].file = fi))
    /\ [](bpc = "Exit1" =>
             /\ Len(log) > 0
             /\ log[Len(log)] = Event(fi, 0, "error")
             /\ \A a \in 1..Len(log) : log[a].file <= fi)
    /\ [][bpc # "Exit1" /\ IsPrefix(log, log')]_vars
    /\ [][(bpc = "Walk" /\ ei <= Len(cur.entries) /\ cur.entries[ei] = "bad")
             => (bpc' = "Exit1" /\ log' = Append(log, Event(fi, 0, "error")))]_vars

StopOnFirstErrorWitness ==
    /\ bpc = "Exit1"
    /\ fi = 2
    /\ nfiles = 3
    /\ cur.kind = "zip"
    /\ \E a \in 1..Len(log) : log[a].file = 1 /\ IsHandlerEvent(log[a])
    /\ \E a \in 1..Len(log) : log[a].file = 2 /\ IsHandlerEvent(log[a])

\* C16: the TAR walker never gives the handler a directory entry or an
\* entry whose name contains "._", and gives it every other entry it has
\* passed exactly once.
TarWalkerFilter ==
    (cur.kind = "tar") =>
       \A j \in 1..Len(cur.entries) :
          /\ (cur.entries[j] \in {"dir", "meta"}) => Handled(j) = 0
          /\ (j < ei /\ cur.entries[j] \in {"file", "empty"}) => Handled(j) = 1

NoBadUpTo(j) == \A k \in 1..j : cur.entries[k] # "bad"

\* C17: the ZIP walker gives the handler every entry that is not a
\* directory exactly once and no directory entry, in list mode and in
\* content mode; only an entry that fails to open ends the walk early,
\* after which no later entry is handled.
ZipWalkerFilter ==
    (cur.kind = "zip") =>
       /\ \A j \in 1..Len(cur.entries) :
             /\ (cur.entries[j] = "dir") => Handled(j) = 0
             /\ Handled(j) <= 1
             /\ (j < ei /\ cur.entries[j] # "dir") => Handled(j) = 1
             /\ ~NoBadUpTo(j) => Handled(j) = 0
       /\ (bpc # "Walk") =>
             \A j \in 1..Len(cur.entries) :
                (cur.entries[j] # "dir" /\ NoBadUpTo(j)) => Handled(j) = 1

(***************************************************************************)
(* format_file_size (lines 110-132).  A size exceeds the integers the      *)
(* checker computes with, so a usize is written in base 1024, least        *)
(* significant digit first: <<d1, d2, d3, d4, d5>> is                      *)
(* d1 + d2*1024 + d3*1024^2 + d4*1024^3 + d5*1024^4.  A result is the      *)
(* unit, the number of decimals printed and the printed digits read as     *)
(* one integer: "1.46 KB" is [unit |-> "KB", decimals |-> 2, digits |->    *)
(* 146].  All sizes here are below 2^53, so bytes as f64 and the division  *)
(* by a power of 1024 are exact, the floor of ln(bytes) / ln(1024) is the  *)
(* position of the leading digit, and {:.2} rounds the exact quotient to   *)
(* the nearest hundredth, a tie going to the even digit.                   *)
(***************************************************************************)
Kibi == 1024

UNITS == <<"Bytes", "KB", "MB", "GB">>

SizeDigits == {0, 1, 5, 128, 476, 512, 1023}

SizeInputs == SizeDigits \X SizeDigits \X SizeDigits \X SizeDigits \X SizeDigits

IsZero(n) == \A k \in 1..Len(n) : n[k] = 0

\* exp.floor() of line 118: the index, from 0, of the leading digit.
FloorLog(n) == (CHOOSE k \in 1..Len(n) : n[k] # 0 /\ \A j \in (k + 1)..Len(n) : n[j] = 0) - 1

\* n * m for a small m, digit by digit with carries.
RECURSIVE TimesFrom(_, _, _, _)
TimesFrom(n, m, k, carry) ==
    IF k > Len(n)
    THEN <<carry>>
    ELSE LET x == n[k] * m + carry
         IN  <<x % Kibi>> \o TimesFrom(n, m, k + 1, x \div Kibi)

Times(n, m) == TimesFrom(n, m, 1, 0)

\* The integer a digit sequence stands for.
RECURSIVE FromDigits(_)
FromDigits(n) == IF n = <<>> THEN 0 ELSE n[1] + Kibi * FromDigits(Tail(n))

Zeros(k) == [j \in 1..k |-> 0]

\* a < b for digit sequences of one length.
DigitsLess(a, b) ==
    \E k \in 1..Len(a) : a[k] < b[k] /\ \A j \in (k + 1)..Len(a) : a[j] = b[j]

\* format!("{:.2}", bytes as f64 / 1024_f64.powi(i)) (lines 121-122,
\* 130-131): the digits of the quotient rounded to two decimals.
TwoDecimals(n, i) ==
    LET scaled == Times(n, 100)
        whole == FromDigits(SubSeq(scaled, i + 1, Len(scaled)))
        frac == SubSeq(scaled, 1, i)
        half == Zeros(i - 1) \o <<Kibi \div 2>>
        up == i > 0 /\ (DigitsLess(half, frac) \/ (frac = half /\ whole % 2 = 1))
    IN  IF up THEN whole + 1 ELSE whole

UnitIndexEarlyCap(i) == IF i >= 2 THEN 3 ELSE i

\* The unit and the power of 1024 divided by: i >= UNITS.len() falls back
\* to GB and 1024^3 (lines 120-123), otherwise UNITS[i] and 1024^i.
UnitIndex(i) == IF i >= Len(UNITS) THEN 3 ELSE i

format_file_size(n) ==
    IF IsZero(n)
    THEN [unit |-> "Bytes", decimals |-> 0, digits |-> 0]
    ELSE IF UnitIndex(FloorLog(n)) = 0
         THEN [unit |-> UNITS[1], decimals |-> 0, digits |-> FromDigits(n)]
         ELSE [unit |-> UNITS[UnitIndex(FloorLog(n)) + 1],
               decimals |-> 2,
               digits |-> TwoDecimals(n, UnitIndex(FloorLog(n)))]

SizeInit ==
    /\ RenderIdle
    /\ BatchIdle
    /\ bytes \in SizeInputs
    /\ formatted = NoResult

FormatFileSize ==
    /\ formatted = NoResult
    /\ formatted' = format_file_size(bytes)
    /\ UNCHANGED bytes
    /\ UNCHANGED <<renderVars, batchVars, sessionVars>>

SizeNext == FormatFileSize

SizeSpec == SizeInit /\ [][SizeNext]_vars

\* The sizes of test_format_file_size and of the claim, in base 1024.
Size1024 == <<0, 1, 0, 0, 0>>

Size1500 == <<476, 1, 0, 0, 0>>

SizeBelowMB == <<1023, 1023, 0, 0, 0>>

SizeBelowGB == <<1023, 1023, 1023, 0, 0>>

SizeTB == <<0, 0, 0, 0, 1>>

Size5TB == <<0, 0, 0, 0, 5>>

\* The unit the claim names for a size of at least 1024: the largest of
\* KB, MB, GB whose size is at most n.
LargestUnit(n) ==
    IF n[5] # 0 \/ n[4] # 0 THEN 3 ELSE IF n[3] # 0 THEN 2 ELSE 1

\* d hundredths is n / 1024^i to two decimals: it differs from the
\* quotient by at most half a hundredth, 200 * n lying between
\* (2d - 1) * 1024^i and (2d + 1) * 1024^i.
IsQuotient(d, n, i) ==
    LET twice == Times(n, 200)
        pad(x) == Zeros(i) \o <<x % Kibi, (x \div Kibi) % Kibi, x \div (Kibi * Kibi)>>
                     \o Zeros(Len(twice) - i - 3)
        lo == pad(2 * d - 1)
        hi == pad(2 * d + 1)
    IN  /\ d > 0
        /\ ~DigitsLess(twice, lo)
        /\ ~DigitsLess(hi, twice)

\* C19: format_file_size gives "0 Bytes" for 0; for 0 < n < 1024 the
\* integer n with unit Bytes and no decimals; for n >= 1024 the largest
\* of KB, MB, GB whose size 1024^i is at most n (GB from 1024^4 on) with
\* n / 1024^i to two decimals: 1024 gives "1.00 KB", 1500 "1.46 KB",
\* 1024^2 - 1 "1024.00 KB", 1024^3 - 1 "1024.00 MB", 1024^4 "1024.00 GB"
\* and 5 * 1024^4 "5120.00 GB".
UnitSelection ==
    (formatted # NoResult) =>
       /\ IsZero(bytes) => formatted = [unit |-> "Bytes", decimals |-> 0, digits |-> 0]
       /\ (~IsZero(bytes) /\ IsZero(Tail(bytes))) =>
             formatted = [unit |-> "Bytes", decimals |-> 0, digits |-> bytes[1]]
       /\ ~IsZero(Tail(bytes)) =>
             /\ formatted.unit = <<"KB", "MB", "GB">>[LargestUnit(bytes)]
             /\ formatted.decimals = 2
             /\ IsQuotient(formatted.digits, bytes, LargestUnit(bytes))
       /\ (bytes = Size1024) => formatted = [unit |-> "KB", decimals |-> 2, digits |-> 100]
       /\ (bytes = Size1500) => formatted = [unit |-> "KB", decimals |-> 2, digits |-> 146]
       /\ (bytes = SizeBelowMB) => formatted = [unit |-> "KB", decimals |-> 2, digits |-> 102400]
       /\ (bytes = SizeBelowGB) => formatted = [unit |-> "MB", decimals |-> 2, digits |-> 102400]
       /\ (bytes = SizeTB) => formatted = [unit |-> "GB", decimals |-> 2, digits |-> 102400]
       /\ (bytes = Size5TB) => formatted = [unit |-> "GB", decimals |-> 2, digits |-> 512000]

UnitSelectionWitness ==
    /\ bytes = SizeBelowGB
    /\ formatted = [unit |-> "MB", decimals |-> 2, digits |-> 102400]

(***************************************************************************)
(* One iteration of the streaming loop seen from its start: the position   *)
(* the scan breaks at, the end of the emit range and the carry offset.     *)
(***************************************************************************)
AtScan == pc = "Streaming" /\ read_bytes > 0 /\ Scan(buffer, read_bytes - 1).found

ScanPtr == Scan(buffer, read_bytes - 1).right_ptr

RangeEnd == EmitEnd(buffer[ScanPtr], ScanPtr)

Offset == CarryOffset(buffer[ScanPtr], ScanPtr, read_bytes)

\* The bytes copy_within moves to the front: buffer[right_ptr..read_bytes].
CarryTail == Slice(buffer, read_bytes - Offset, read_bytes)

\* C21: in every streaming iteration the emit range and the carry tail
\* partition the filled region: the range ends where the tail begins, and
\* when the scan stopped at a single-byte character the range is the
\* whole filled region.
BufferFullyConsumed ==
    AtScan =>
       /\ RangeEnd + Offset = read_bytes
       /\ (buffer[ScanPtr] < 128) => RangeEnd = read_bytes

\* The tail is the start of a multi-byte character that the bytes in hand
\* do not complete.
IsIncompleteStart(tail) ==
    /\ tail # <<>>
    /\ Width(tail[1]) > 1
    /\ Len(tail) < Width(tail[1])
    /\ GoodPrefix(tail) = Len(tail)

\* C22: at every iteration the carry tail is between 0 and 3 bytes long
\* and, when not empty, is the start of a multi-byte character not yet
\* completed by the bytes in hand; so the next read asks for at least
\* BUFFER_SIZE - 3 bytes.
CarryTailBound ==
    AtScan =>
       /\ Offset \in 0..3
       /\ (Offset > 0) => IsIncompleteStart(CarryTail)
       /\ BUFFER_SIZE - Offset >= BUFFER_SIZE - 3

\* C23: after an iteration that carries a tail of length k and reads n > 0
\* bytes, the tail occupies buffer positions 0..k in its original order,
\* the newly read bytes occupy positions k..k+n, and the filled length of
\* the next iteration is k + n.
Backfill ==
    [][(AtScan /\ pc' = "Streaming") =>
          /\ Slice(buffer', 0, Offset) = CarryTail
          /\ Slice(buffer', Offset, Offset + (srcPos' - srcPos))
                = SubSeq(stream, srcPos + 1, srcPos')
          /\ srcPos' > srcPos
          /\ read_bytes' = Offset + (srcPos' - srcPos)]_vars

\* An iteration of a valid stream that starts with a carried tail followed
\* by newly read bytes: a read ended inside the filled region.
BackfillWitness ==
    /\ pc = "Streaming"
    /\ IsValidUtf8(stream)
    /\ reads >= 2
    /\ Output # <<>>
    /\ \E c \in cuts : Len(Output) < c /\ c < srcPos
    /\ Slice(buffer, 0, read_bytes) = SubSeq(stream, Len(Output) + 1, srcPos)

\* C24: an emit range that is not valid UTF-8 raises no error and does not
\* stop the renderer: the iteration writes the lossily substituted text of
\* the range, its lines that are valid UTF-8 kept, then carries the tail
\* and issues the next read as after a valid range.
MalformedHandledLocally ==
    [][(AtScan /\ ~IsValidUtf8(Slice(buffer, 0, RangeEnd))) =>
          /\ pc' \in {"Streaming", "Finished"}
          /\ Fragments' = SelectSeq(Printed(sink, LossyFiltered(Slice(buffer, 0, RangeEnd))),
                                    IsText)
          /\ Slice(buffer', 0, Offset) = CarryTail
          /\ reads' = reads + 1
          /\ (pc' = "Streaming") => read_bytes' = Offset + (srcPos' - srcPos)]_vars

\* The loop goes on after a malformed range whose substituted text was
\* written.
MalformedHandledLocallyWitness ==
    /\ pc = "Streaming"
    /\ read_bytes > 0
    /\ ~IsValidUtf8(emitRange)
    /\ Fragments # <<>>
    /\ Fragments[Len(Fragments)].bytes = LossyFiltered(emitRange)
    /\ LossyFiltered(emitRange) # emitRange

(***************************************************************************)
(* A second call of display_file_content in the same process: the handler  *)
(* of a walker is called for the next entry after the previous call        *)
(* returned (lines 325, 409).  Its locals are created anew (lines 182-184);*)
(* standard output and CONTEXT are the process's.                          *)
(***************************************************************************)
MaxCalls == 2

MaxSessionLen == 3

SessionBytes == {97, 226, 159}

SessionStreams == UNION {[1..n -> SessionBytes] : n \in 0..MaxSessionLen}

NewBufferStale(old) == old

\* let mut buffer = [0u8; BUFFER_SIZE] (line 182).
NewBuffer(old) == [i \in 0..(BUFFER_SIZE - 1) |-> 0]

SessionInit == Init /\ stream \in SessionStreams

NextCall ==
    /\ pc \in {"Finished", "Rejected", "Stopped"}
    /\ calls < MaxCalls
    /\ calls' = calls + 1
    /\ earlier' = earlier \o sink
    /\ leftover' = discarded
    /\ stream' \in SessionStreams
    /\ srcPos' = 0
    /\ buffer' = NewBuffer(buffer)
    /\ read_bytes' = 0
    /\ magic_bytes' = <<>>
    /\ mime' = NoType
    /\ pc' = "Sniffing"
    /\ sink' = <<>>
    /\ reads' = 0
    /\ eofSeen' = FALSE
    /\ readFailed' = FALSE
    /\ cuts' = {}
    /\ discarded' = <<>>
    /\ emitRange' = <<>>
    /\ arm' = "not yet"
    /\ UNCHANGED with_styling
    /\ UNCHANGED <<batchVars, sizeVars>>

SessionNext ==
    \/ SniffRead
    \/ SniffReadFails
    \/ Reject
    \/ BeginStreaming
    \/ ScanUnderflow
    \/ ScanGuard
    \/ StreamContinue
    \/ StreamEnd
    \/ StreamReadFails
    \/ NextCall

SessionSpec == SessionInit /\ [][SessionNext]_vars

\* The fragments a call writes in its first `iters` iterations when it is
\* given the stream str and its reads end at the positions cs, computed
\* from a buffer of its own.
RECURSIVE ReplayFrom(_, _, _, _, _, _, _)
ReplayFrom(str, cs, buf, rb, pos, iters, out) ==
    IF iters = 0 THEN out
    ELSE LET e == Emitted(buf, rb)
             later == {c \in cs : c > pos}
             nxt == IF later = {} THEN pos
                    ELSE CHOOSE c \in later : \A d \in later : c <= d
         IN  ReplayFrom(str, cs,
                        Filled(e.buffer, e.offset, str, pos, nxt - pos),
                        (nxt - pos) + e.offset, nxt, iters - 1,
                        Printed(out, e.text))

Replay(str, cs, iters) ==
    LET first == CHOOSE c \in cs : \A d \in cs : c <= d
    IN  ReplayFrom(str, cs,
                   Filled([i \in 0..(BUFFER_SIZE - 1) |-> 0], 0, str, 0, first),
                   first, first, iters, <<>>)

\* C25: a call of display_file_content starts with a zeroed buffer, a
\* filled length of 0 and no sniff window, and the fragments it writes are
\* those the stream and the positions where its reads ended determine on
\* their own, whatever an earlier call of the same process rendered and
\* whatever carry tail that call left behind.
NoStateAcrossInvocations ==
    /\ (pc = "Sniffing") =>
          /\ buffer = [i \in 0..(BUFFER_SIZE - 1) |-> 0]
          /\ read_bytes = 0
          /\ magic_bytes = <<>>
          /\ Fragments = <<>>
    /\ (pc \in {"Streaming", "Finished", "Stopped"}) =>
          Fragments = Replay(stream, cuts, reads - 1)
    /\ (pc \in {"Sniffed", "Rejected"}) => Fragments = <<>>

\* The second call rendered a stream that begins with a continuation byte
\* after the first call ended with a carry tail in its buffer.
NoStateAcrossInvocationsWitness ==
    /\ calls = 2
    /\ leftover # <<>>
    /\ FinishedCleanly
    /\ Output # <<>>
    /\ IsCont(stream[1])

\* The handler calls recorded for the file the latest dispatch was for.
DispatchedCalls ==
    SelectSeq(log, LAMBDA e : e.file = cur.file /\ IsHandlerEvent(e))

\* C26: a GZIP or BZIP2 input whose name without its last extension ends
\* with ".tar" is walked as a TAR archive and, in content mode, each entry
\* that is not a directory is rendered, once and in archive order;
\* any other GZIP or BZIP2 input is rendered once as one stream named by
\* the file name without its last extension.
CompressedDispatch ==
    (cur.type \in {"application/gzip", "application/x-bzip2"} /\ ~list) =>
       IF cur.tar_name
       THEN /\ cur.kind = "tar"
            /\ \A j \in 1..Len(cur.entries) :
                  /\ (cur.entries[j] = "dir") => Handled(j) = 0
                  /\ Handled(j) <= 1
                  /\ (j < ei /\ cur.entries[j] \notin {"dir", "bad"}) => Handled(j) = 1
            /\ \A a \in 1..Len(DispatchedCalls), b \in 1..Len(DispatchedCalls) :
                  a < b => DispatchedCalls[a].entry < DispatchedCalls[b].entry
            /\ (bpc # "Walk") =>
                  \A j \in 1..Len(cur.entries) :
                     (cur.entries[j] # "dir" /\ NoBadUpTo(j)) => Handled(j) = 1
       ELSE /\ cur.kind = "none"
            /\ cur.name = "stem"
            /\ DispatchedCalls = <<Event(cur.file, 0, "content")>>

\* C27: for a valid UTF-8 stream, at the start of every streaming iteration
\* the filled region of the buffer is the contiguous segment of the stream
\* from the first byte not yet emitted to the last byte read so far, and
\* its first byte is a single-byte character or a lead byte, never a
\* continuation byte.
BufferAlignment ==
    (pc = "Streaming" /\ IsValidUtf8(stream)) =>
       /\ Len(Output) + read_bytes = srcPos
       /\ Slice(buffer, 0, read_bytes) = SubSeq(stream, Len(Output) + 1, srcPos)
       /\ (read_bytes > 0) => ~IsCont(buffer[0])

\* An iteration of a valid stream that starts, after text was emitted and
\* three reads, with a multi-byte character at the front of the buffer.
BufferAlignmentWitness ==
    /\ pc = "Streaming"
    /\ IsValidUtf8(stream)
    /\ reads >= 3
    /\ Len(Output) > 0
    /\ read_bytes >= 2
    /\ buffer[0] >= 192
    /\ IsCont(buffer[1])

\* C28: once the first read has returned at least one byte, at every start
\* of the backward scan 1 <= read_bytes <= BUFFER_SIZE, the scan keeps
\* 0 <= right_ptr < read_bytes, the emit range ends inside the filled
\* region, after the carry 0 <= offset <= read_bytes, and the renderer
\* never panics on an index or on an unsigned subtraction, whatever the
\* bytes and the chunking.
IndexBounds ==
    (magic_bytes # <<>>) =>
       /\ (pc = "Streaming") => (1 <= read_bytes /\ read_bytes <= BUFFER_SIZE)
       /\ AtScan =>
             /\ 0 <= ScanPtr /\ ScanPtr < read_bytes
             /\ 0 <= RangeEnd /\ RangeEnd <= read_bytes
             /\ 0 <= Offset /\ Offset <= read_bytes
             /\ Offset <= BUFFER_SIZE
       /\ pc # "Panicked"

\* The scan starts on a full buffer that the carry tail and a read filled;
\* the scan settles on index 0 and the whole filled region is carried.
IndexBoundsWitness ==
    /\ AtScan
    /\ magic_bytes # <<>>
    /\ read_bytes = BUFFER_SIZE
    /\ ScanPtr = 0
    /\ Offset = BUFFER_SIZE
    /\ reads >= 2

====
